---- MODULE Spec2Model ----
(***************************************************************************)
(* Model of .github/scripts/request_copilot_review.py.                     *)
(*                                                                         *)
(* Python values are represented as follows.                               *)
(*   str            a sequence of one-character strings, <<"o","/","r">>   *)
(*   None / value   <<>> is None, <<v>> is the value v                     *)
(*   dict           a record; `k in d` is  k \in DOMAIN d                  *)
(* Time is counted in ticks of 100 ms, the period of time.sleep(0.1).      *)
(***************************************************************************)
EXTENDS Integers, Sequences, FiniteSets, TLC

VARIABLES
    pc,             \* position of the (single) thread of control
    args,           \* main: the namespace parse_args returned, <<>> before
    info,           \* the triple returned by get_pull_request_info
    target,         \* main: (owner, repo, pull_number), <<>> until resolved
    exit_code,      \* exit status of the process, <<>> while running
    environ,        \* os.environ and the event file, as get_pull_request_info reads them
    github_token,   \* request_copilot_review: local github_token
    server_path,    \* request_copilot_review: local server_path
    process,        \* request_copilot_review: local process (the Popen handle)
    helper,         \* the helper subprocess: "none", "running", "closed", "exited"
    stdout_pipe,    \* lines the helper has written and the client has not read
    lines_written,  \* how many lines the helper has written
    stdin_log,      \* messages the client has written to the helper's stdin
    init_response,  \* request_copilot_review: local init_response
    response,       \* request_copilot_review: local response (last poll line)
    elapsed,        \* time.time() - start_time, in ticks
    ret,            \* value request_copilot_review returns, <<>> until decided
    exit_path,      \* which return statement decided ret
    cleanup         \* calls made on the handle by the finally block, in order

vars == << pc, args, info, target, exit_code, environ, github_token, server_path,
           process, helper, stdout_pipe, lines_written, stdin_log, init_response,
           response, elapsed, ret, exit_path, cleanup >>

None == << >>
Some(v) == << v >>

\* Bounds of the model.
MaxLines == 3           \* lines the helper writes in one run
MaxOver == 0            \* blocked-read quanta observed past the polling ceiling

\* Program constants, in ticks of 100 ms.
TicksPerSecond == 10    \* time.sleep(0.1) is one tick
PollCeiling == 30 * TicksPerSecond
SleepTicks == 1
BlockQuantum == 30 * TicksPerSecond  \* granularity at which a blocked read observes time

(***************************************************************************)
(* str.split('/') and int(str)                                             *)
(***************************************************************************)
RECURSIVE SplitFrom(_, _, _)
\* Segments of s from position i on, cur being the segment under construction.
SplitFrom(s, i, cur) ==
    IF i > Len(s) THEN << cur >>
    ELSE IF s[i] = "/" THEN << cur >> \o SplitFrom(s, i + 1, << >>)
    ELSE SplitFrom(s, i + 1, Append(cur, s[i]))

split(s) == SplitFrom(s, 1, << >>)

Digits == { "0", "1", "2", "3", "4", "5", "6", "7", "8", "9" }

DigitVal(c) ==
    CASE c = "0" -> 0 [] c = "1" -> 1 [] c = "2" -> 2 [] c = "3" -> 3 [] c = "4" -> 4
      [] c = "5" -> 5 [] c = "6" -> 6 [] c = "7" -> 7 [] c = "8" -> 8 [] c = "9" -> 9

RECURSIVE DigitsValue(_, _)
DigitsValue(s, acc) ==
    IF s = << >> THEN acc ELSE DigitsValue(Tail(s), 10 * acc + DigitVal(Head(s)))

AllDigits(s) == s # << >> /\ \A i \in 1..Len(s) : s[i] \in Digits

\* int(s) for a str s: [ok |-> FALSE] stands for ValueError.
int(s) ==
    IF s # << >> /\ Head(s) \in { "-", "+" }
    THEN IF AllDigits(Tail(s))
         THEN [ok |-> TRUE,
               val |-> IF Head(s) = "-" THEN 0 - DigitsValue(Tail(s), 0)
                       ELSE DigitsValue(Tail(s), 0)]
         ELSE [ok |-> FALSE, val |-> 0]
    ELSE IF AllDigits(s) THEN [ok |-> TRUE, val |-> DigitsValue(s, 0)]
         ELSE [ok |-> FALSE, val |-> 0]

(***************************************************************************)
(* get_pull_request_info                                                   *)
(***************************************************************************)
\* The three outcomes of the function: a returned triple, or an exception
\* propagating to the caller.
Returned(o, r, n) == [kind |-> "return", owner |-> o, repo |-> r, number |-> n]
Raised == [kind |-> "raise", owner |-> None, repo |-> None, number |-> None]
NoInfo == Returned(None, None, None)
Pending == [kind |-> "pending", owner |-> None, repo |-> None, number |-> None]

\* pr_number holds a str (from PR_NUMBER), an int (from the event JSON) or None.
PyNone == [t |-> "none"]
PyStr(s) == [t |-> "str", v |-> s]
PyInt(n) == [t |-> "int", v |-> n]

\* Python truth value of pr_number.
Truthy(p) ==
    CASE p.t = "none" -> FALSE
      [] p.t = "str" -> p.v # << >>
      [] p.t = "int" -> p.v # 0

\* os.environ.get(name): None or the variable's value.
EnvGet(e, name) == IF e[name] = None THEN PyNone ELSE PyStr(e[name][1])

\* EventNumber taking the number of any `issue`, a pull request or not.
EventNumber_AnyIssue(e) ==
    IF e.GITHUB_EVENT_PATH # None /\ e.event_file.exists
    THEN IF ~ e.event_file.valid_json
         THEN [raise |-> TRUE, pr |-> PyNone]
         ELSE LET event_data == e.event_file.data
              IN  IF "pull_request" \in DOMAIN event_data
                  THEN IF "number" \in DOMAIN event_data.pull_request
                       THEN [raise |-> FALSE,
                             pr |-> PyInt(event_data.pull_request.number)]
                       ELSE [raise |-> TRUE, pr |-> PyNone]
                  ELSE IF "issue" \in DOMAIN event_data
                       THEN IF "number" \in DOMAIN event_data.issue
                            THEN [raise |-> FALSE,
                                  pr |-> PyInt(event_data.issue.number)]
                            ELSE [raise |-> TRUE, pr |-> PyNone]
                       ELSE [raise |-> FALSE, pr |-> PyNone]
    ELSE [raise |-> FALSE, pr |-> PyNone]

\* Lines 29-41: the number taken from the event payload, [raise |-> TRUE] when
\* json.load or a subscript raises.
EventNumber(e) ==
    IF e.GITHUB_EVENT_PATH # None /\ e.event_file.exists
    THEN IF ~ e.event_file.valid_json
         THEN [raise |-> TRUE, pr |-> PyNone]
         ELSE LET event_data == e.event_file.data
              IN  IF "pull_request" \in DOMAIN event_data
                  THEN IF "number" \in DOMAIN event_data.pull_request
                       THEN [raise |-> FALSE,
                             pr |-> PyInt(event_data.pull_request.number)]
                       ELSE [raise |-> TRUE, pr |-> PyNone]
                  ELSE IF "issue" \in DOMAIN event_data
                          /\ "pull_request" \in DOMAIN event_data.issue
                       THEN IF "number" \in DOMAIN event_data.issue
                            THEN [raise |-> FALSE,
                                  pr |-> PyInt(event_data.issue.number)]
                            ELSE [raise |-> TRUE, pr |-> PyNone]
                       ELSE [raise |-> FALSE, pr |-> PyNone]
    ELSE [raise |-> FALSE, pr |-> PyNone]

\* Lines 43-47, given owner, repo and the resolved pr_number.
FinishInfo(owner, repo, p) ==
    IF ~ Truthy(p) THEN NoInfo
    ELSE IF p.t = "int" THEN Returned(Some(owner), Some(repo), Some(p.v))
    ELSE IF int(p.v).ok THEN Returned(Some(owner), Some(repo), Some(int(p.v).val))
    ELSE Raised

\* Line 21: owner, repo = repository.split('/') unpacks exactly two segments and
\* raises ValueError otherwise.
UnpackOk(parts) == Len(parts) = 2

get_pull_request_info(e) ==
    LET repository == IF e.GITHUB_REPOSITORY = None THEN << >>
                      ELSE e.GITHUB_REPOSITORY[1]
    IN  IF repository = << >> THEN NoInfo
        ELSE LET parts == split(repository)
             IN  IF ~ UnpackOk(parts) THEN Raised
                 ELSE LET owner == parts[1]
                          repo == parts[2]
                          pr_env == EnvGet(e, "PR_NUMBER")
                      IN  IF Truthy(pr_env) THEN FinishInfo(owner, repo, pr_env)
                          ELSE LET ev == EventNumber(e)
                               IN  IF ev.raise THEN Raised
                                   ELSE FinishInfo(owner, repo, ev.pr)

(***************************************************************************)
(* The environments get_pull_request_info is applied to.                   *)
(***************************************************************************)
RepositoryValues ==
    { None, Some(<< >>), Some(<<"e">>), Some(<<"e", "/", "r">>),
      Some(<<"a", "/", "b", "/", "c">>), Some(<<"/", "r">>), Some(<<"e", "/">>) }

PrNumberValues ==
    { None, Some(<< >>), Some(<<"7">>), Some(<<"0">>), Some(<<"-", "1">>), Some(<<"x">>) }

NoFile == [exists |-> FALSE, valid_json |-> FALSE, data |-> [empty |-> 0]]
BadFile == [exists |-> TRUE, valid_json |-> FALSE, data |-> [empty |-> 0]]
JsonFile(d) == [exists |-> TRUE, valid_json |-> TRUE, data |-> d]

EventDatas ==
    { [pull_request |-> [number |-> 42]],
      [pull_request |-> [number |-> 0]],
      [pull_request |-> [title |-> 0]],
      [issue |-> [number |-> 7, pull_request |-> [url |-> 0]]],
      [issue |-> [number |-> 9]],
      [pull_request |-> [number |-> 42],
       issue |-> [number |-> 7, pull_request |-> [url |-> 0]]],
      [action |-> 0] }

EventFiles == { NoFile, BadFile } \cup { JsonFile(d) : d \in EventDatas }

EnvSet ==
    { [GITHUB_REPOSITORY |-> r, PR_NUMBER |-> p, GITHUB_EVENT_PATH |-> x, event_file |-> f] :
        r \in RepositoryValues, p \in PrNumberValues,
        x \in { None, Some(<<"p">>) }, f \in EventFiles }

NoEnv ==
    [GITHUB_REPOSITORY |-> None, PR_NUMBER |-> None, GITHUB_EVENT_PATH |-> None,
     event_file |-> NoFile]

(***************************************************************************)
(* Lines of the helper's output and how the polling loop classifies them.  *)
(***************************************************************************)
\* A line: its JSON syntax, the keys of the object it parses to besides "id",
\* whether the value under "error" is itself an object, and the value under
\* "id" (0 where there is none).
ObjId(K, d, i) == [syntax |-> "object", keys |-> K, errdict |-> d, id |-> i]
\* An object answering the tools/call request, whose id is 2.
Obj(K, d) == ObjId(K, d, 2)
Invalid == [syntax |-> "invalid", keys |-> { }, errdict |-> FALSE, id |-> 0]
Scalar == [syntax |-> "scalar", keys |-> { }, errdict |-> FALSE, id |-> 0]
\* readline() returns '' at end of file.
Eof == [syntax |-> "eof", keys |-> { }, errdict |-> FALSE, id |-> 0]

\* The lines the helper writes. A line that parses to a scalar (Scalar) ends
\* in the except clause of line 190 like an object whose `error` is no
\* object, which stands for both here; the last line is a result object
\* under the id of the initialize request.
Lines ==
    { Obj({ "result" }, FALSE), Obj({ "error" }, TRUE), Obj({ "error", "result" }, TRUE),
      Obj({ }, FALSE), Obj({ "error" }, FALSE), Invalid,
      ObjId({ "result" }, FALSE, 1) }

Outcome(r, p) == [ret |-> r, path |-> p]

\* poll_outcome with the `elif 'result'` branch missing: a result line is
\* treated as an unexpected message.
poll_outcome_NoResultBranch(line) ==
    CASE line.syntax = "invalid" -> Outcome(FALSE, "abandoned")
      [] line.syntax = "scalar" -> Outcome(FALSE, "exception")
      [] line.syntax = "object" ->
            IF "error" \in line.keys
            THEN IF line.errdict THEN Outcome(FALSE, "rpc_error")
                 ELSE Outcome(FALSE, "exception")
            ELSE Outcome(FALSE, "abandoned")

\* poll_outcome testing 'result' before 'error'.
poll_outcome_ResultFirst(line) ==
    CASE line.syntax = "invalid" -> Outcome(FALSE, "abandoned")
      [] line.syntax = "scalar" -> Outcome(FALSE, "exception")
      [] line.syntax = "object" ->
            IF "result" \in line.keys THEN Outcome(TRUE, "result")
            ELSE IF "error" \in line.keys
            THEN IF line.errdict THEN Outcome(FALSE, "rpc_error")
                 ELSE Outcome(FALSE, "exception")
            ELSE Outcome(FALSE, "abandoned")

\* poll_outcome accepting a result only under the id of the request.
poll_outcome_ChecksId(line) ==
    CASE line.syntax = "invalid" -> Outcome(FALSE, "abandoned")
      [] line.syntax = "scalar" -> Outcome(FALSE, "exception")
      [] line.syntax = "object" ->
            IF "error" \in line.keys
            THEN IF line.errdict THEN Outcome(FALSE, "rpc_error")
                 ELSE Outcome(FALSE, "exception")
            ELSE IF "result" \in line.keys /\ line.id = 2 THEN Outcome(TRUE, "result")
            ELSE Outcome(FALSE, "abandoned")

\* Lines 157-188 for a non-empty line: the value returned and the statement
\* returning it.
\*   "rpc_error"  line 168      "result"     line 174
\*   "abandoned"  line 183 break, then line 188
\*   "exception"  line 192
poll_outcome(line) ==
    CASE line.syntax = "invalid" -> Outcome(FALSE, "abandoned")
      [] line.syntax = "scalar" -> Outcome(FALSE, "exception")
      [] line.syntax = "object" ->
            IF "error" \in line.keys
            THEN IF line.errdict THEN Outcome(FALSE, "rpc_error")
                 ELSE Outcome(FALSE, "exception")
            ELSE IF "result" \in line.keys THEN Outcome(TRUE, "result")
            ELSE Outcome(FALSE, "abandoned")

\* Line 154.
within_ceiling(t) == t < PollCeiling

init_request == [id |-> 1, method |-> "initialize", params |-> [name |-> "github-actions-client"]]

review_request(t) ==
    [id |-> 2, method |-> "tools/call",
     params |-> [name |-> "request_copilot_review",
                 arguments |-> [owner |-> t.owner, repo |-> t.repo,
                                pullNumber |-> t.number]]]

(***************************************************************************)
(* main                                                                    *)
(***************************************************************************)
\* No option; each pattern with exactly one option missing; all three, with
\* the pull-request numbers "5", "0" and "x" (no integer); and an owner given
\* as the empty string.
ArgSet ==
    { [owner |-> None, repo |-> None, pr |-> None],
      [owner |-> None, repo |-> Some(<<"d">>), pr |-> Some(<<"5">>)],
      [owner |-> Some(<<"c">>), repo |-> None, pr |-> Some(<<"5">>)],
      [owner |-> Some(<<"c">>), repo |-> Some(<<"d">>), pr |-> None],
      [owner |-> Some(<< >>), repo |-> Some(<<"d">>), pr |-> Some(<<"5">>)] }
    \cup { [owner |-> Some(<<"c">>), repo |-> Some(<<"d">>), pr |-> Some(n)] :
             n \in { <<"5">>, <<"0">>, <<"x">> } }

\* Python truth value of an optional str.
Given(a) == a # None /\ a[1] # << >>

\* Line 215.
all_given(a) == Given(a.owner) /\ Given(a.repo) /\ Given(a.pr)

\* Line 219.
unusable(i) ==
    \/ i.owner = None \/ i.owner[1] = << >>
    \/ i.repo = None \/ i.repo[1] = << >>
    \/ i.number = None \/ i.number[1] = 0

\* exit_status reporting success whatever the client returned.
exit_status_AlwaysZero(success) == 0

\* Lines 228-233.
exit_status(success) == IF success THEN 0 ELSE 1

Exit(code) ==
    /\ pc' = "exited"
    /\ exit_code' = Some(code)

ClientVars ==
    << github_token, server_path, process, helper, stdout_pipe, lines_written,
       stdin_log, init_response, response, elapsed, ret, exit_path, cleanup >>

\* Line 212: parse_args returns the namespace, or argparse ends the process
\* itself: status 0 after printing help, status 2 on a usage error.
ParseArgs ==
    /\ pc = "main"
    /\ \/ \E a \in ArgSet :
            /\ args' = Some(a)
            /\ pc' = "main_target"
            /\ UNCHANGED exit_code
       \/ \E code \in { 0, 2 } :
            /\ Exit(code)
            /\ UNCHANGED args
    /\ UNCHANGED << info, target, environ >>
    /\ UNCHANGED ClientVars

\* Lines 215-216.
TargetFromArgs ==
    /\ pc = "main_target"
    /\ all_given(args[1])
    /\ IF int(args[1].pr[1]).ok
       THEN /\ target' = Some([owner |-> args[1].owner[1], repo |-> args[1].repo[1],
                               number |-> int(args[1].pr[1]).val])
            /\ pc' = "main_call"
            /\ UNCHANGED exit_code
       ELSE \* ValueError is not caught: the interpreter exits with status 1
            /\ Exit(1)
            /\ UNCHANGED target
    /\ UNCHANGED << args, info, environ >>
    /\ UNCHANGED ClientVars

\* TargetFromInfo keeping each option that was supplied and taking only the
\* missing ones from the resolver.
TargetFromInfo_KeepsGiven ==
    /\ pc = "main_target"
    /\ ~ all_given(args[1])
    /\ \E e \in EnvSet :
         LET i == get_pull_request_info(e)
         IN  /\ info' = i
             /\ IF i.kind = "raise" \/ unusable(i)
                THEN /\ Exit(1)
                     /\ UNCHANGED target
                ELSE /\ target' =
                          Some([owner |-> IF Given(args[1].owner) THEN args[1].owner[1]
                                          ELSE i.owner[1],
                                repo |-> IF Given(args[1].repo) THEN args[1].repo[1]
                                         ELSE i.repo[1],
                                number |-> IF Given(args[1].pr) /\ int(args[1].pr[1]).ok
                                           THEN int(args[1].pr[1]).val
                                           ELSE i.number[1]])
                     /\ pc' = "main_call"
                     /\ UNCHANGED exit_code
    /\ UNCHANGED << args, environ >>
    /\ UNCHANGED ClientVars

\* Lines 217-221.
TargetFromInfo ==
    /\ pc = "main_target"
    /\ ~ all_given(args[1])
    /\ \E e \in EnvSet :
         LET i == get_pull_request_info(e)
         IN  /\ info' = i
             /\ IF i.kind = "raise" \/ unusable(i)
                THEN /\ Exit(1)
                     /\ UNCHANGED target
                ELSE /\ target' = Some([owner |-> i.owner[1], repo |-> i.repo[1],
                                        number |-> i.number[1]])
                     /\ pc' = "main_call"
                     /\ UNCHANGED exit_code
    /\ UNCHANGED << args, environ >>
    /\ UNCHANGED ClientVars

\* Line 226: the call.
CallClient ==
    /\ pc = "main_call"
    /\ pc' = "rcr_token"
    /\ UNCHANGED << args, info, target, exit_code, environ >>
    /\ UNCHANGED ClientVars

\* Lines 226-233: the call has returned.
MainExit ==
    /\ pc = "rcr_returned"
    /\ Exit(exit_status(ret = Some(TRUE)))
    /\ UNCHANGED << args, info, target, environ >>
    /\ UNCHANGED ClientVars

(***************************************************************************)
(* request_copilot_review                                                  *)
(***************************************************************************)
MainVars == << args, info, target, exit_code, environ >>

TokenValues == { None, Some(<< >>), Some(<<"t">>) }

\* token_ok testing only that the variable is set.
token_ok_SetOnly(tok) == tok # None

\* Line 72: the token is usable when set and not empty.
token_ok(tok) == tok # None /\ tok[1] # << >>

\* Lines 55-63: the path when the file exists, None otherwise.
setup_mcp_server(exists) == IF exists THEN Some(<<"github-mcp-server">>) ELSE None

\* ReturnEarly with the return statement missing: execution falls through to
\* the try block.
ReturnEarly_FallsThrough(path) ==
    /\ pc' = "rcr_popen"
    /\ UNCHANGED << ret, exit_path >>

\* A return statement before the try block (lines 74 and 80): no cleanup runs.
ReturnEarly(path) ==
    /\ ret' = Some(FALSE)
    /\ exit_path' = path
    /\ pc' = "rcr_returned"

\* A return statement inside the try block: the finally block runs next.
ReturnFromTry(value, path) ==
    /\ ret' = Some(value)
    /\ exit_path' = path
    /\ pc' = "rcr_finally"

\* Caught with the cleanup in an else clause instead of a finally clause: it
\* does not run after an exception.
Caught_WithoutFinally ==
    /\ ret' = Some(FALSE)
    /\ exit_path' = "exception"
    /\ pc' = "rcr_returned"

\* Lines 190-192: an exception raised inside the try block.
Caught == ReturnFromTry(FALSE, "exception")

\* Lines 71-74.
CheckToken ==
    /\ pc = "rcr_token"
    /\ \E tok \in TokenValues :
         /\ github_token' = tok
         /\ IF token_ok(tok)
            THEN /\ pc' = "rcr_setup"
                 /\ UNCHANGED << ret, exit_path >>
            ELSE ReturnEarly("no_token")
    /\ UNCHANGED << server_path, process, helper, stdout_pipe, lines_written, stdin_log,
                    init_response, response, elapsed, cleanup >>
    /\ UNCHANGED MainVars

\* Lines 77-82.
LocateHelper ==
    /\ pc = "rcr_setup"
    /\ \E exists \in BOOLEAN :
         /\ server_path' = setup_mcp_server(exists)
         /\ IF setup_mcp_server(exists) # None
            THEN /\ pc' = "rcr_popen"
                 /\ UNCHANGED << ret, exit_path >>
            ELSE ReturnEarly("no_helper")
    /\ UNCHANGED << github_token, process, helper, stdout_pipe, lines_written, stdin_log,
                    init_response, response, elapsed, cleanup >>
    /\ UNCHANGED MainVars

\* Lines 85-98: Popen starts the helper, or raises (the file is no executable)
\* and process stays None.
Launch ==
    /\ pc = "rcr_popen"
    /\ \/ /\ process' = TRUE
          /\ helper' = "running"
          /\ pc' = "rcr_init_write"
          /\ UNCHANGED << ret, exit_path >>
       \/ /\ Caught
          /\ UNCHANGED << process, helper >>
    /\ UNCHANGED << github_token, server_path, stdout_pipe, lines_written, stdin_log,
                    init_response, response, elapsed, cleanup >>
    /\ UNCHANGED MainVars

\* The helper process exists: it runs, with its stdout open or closed.
HelperAlive == helper \in { "running", "closed" }

\* WriteMessage sending every message a second time.
WriteMessage_Retried(msg, next) ==
    IF HelperAlive
    THEN /\ stdin_log' = Append(Append(stdin_log, msg), msg)
         /\ pc' = next
         /\ UNCHANGED << ret, exit_path >>
    ELSE /\ Caught
         /\ UNCHANGED stdin_log

\* A write to the stdin of a helper that has exited raises BrokenPipeError.
WriteMessage(msg, next) ==
    IF HelperAlive
    THEN /\ stdin_log' = Append(stdin_log, msg)
         /\ pc' = next
         /\ UNCHANGED << ret, exit_path >>
    ELSE /\ Caught
         /\ UNCHANGED stdin_log

\* Lines 100-122.
SendInitialize ==
    /\ pc = "rcr_init_write"
    /\ WriteMessage(init_request, "rcr_init_read")
    /\ UNCHANGED << github_token, server_path, process, helper, stdout_pipe, lines_written,
                    init_response, response, elapsed, cleanup >>
    /\ UNCHANGED MainVars

\* readline() returns the next line, '' once the helper has closed its stdout
\* (on its own or by exiting) and the pipe
\* is drained, and blocks otherwise.
CanRead == stdout_pipe # << >> \/ helper # "running"
NextLine == IF stdout_pipe # << >> THEN Head(stdout_pipe) ELSE Eof
RestOfPipe == IF stdout_pipe # << >> THEN Tail(stdout_pipe) ELSE stdout_pipe

\* ReadInitResponse returning False when the line holds `error`.
ReadInitResponse_ChecksError ==
    /\ pc = "rcr_init_read"
    /\ CanRead
    /\ init_response' = Some(NextLine)
    /\ stdout_pipe' = RestOfPipe
    /\ IF "error" \in NextLine.keys
       THEN ReturnFromTry(FALSE, "rpc_error")
       ELSE /\ pc' = "rcr_call_write"
            /\ UNCHANGED << ret, exit_path >>
    /\ UNCHANGED << github_token, server_path, process, helper, lines_written, stdin_log,
                    response, elapsed, cleanup >>
    /\ UNCHANGED MainVars

\* Lines 125-126.
ReadInitResponse ==
    /\ pc = "rcr_init_read"
    /\ CanRead
    /\ init_response' = Some(NextLine)
    /\ stdout_pipe' = RestOfPipe
    /\ pc' = "rcr_call_write"
    /\ UNCHANGED << github_token, server_path, process, helper, lines_written, stdin_log,
                    response, elapsed, ret, exit_path, cleanup >>
    /\ UNCHANGED MainVars

\* Lines 129-153: the request is written and start_time is taken.
SendToolsCall ==
    /\ pc = "rcr_call_write"
    /\ WriteMessage(review_request(target[1]), "rcr_loop")
    /\ elapsed' = 0
    /\ UNCHANGED << github_token, server_path, process, helper, stdout_pipe, lines_written,
                    init_response, response, cleanup >>
    /\ UNCHANGED MainVars

\* Line 154, and lines 187-188 when the condition fails.
LoopCheck ==
    /\ pc = "rcr_loop"
    /\ IF within_ceiling(elapsed)
       THEN /\ pc' = "rcr_readline"
            /\ UNCHANGED << ret, exit_path >>
       ELSE ReturnFromTry(FALSE, "timeout")
    /\ UNCHANGED << github_token, server_path, process, helper, stdout_pipe, lines_written,
                    stdin_log, init_response, response, elapsed, cleanup >>
    /\ UNCHANGED MainVars

\* PollRead leaving the loop at end of file instead of sleeping.
PollRead_EofEndsLoop ==
    /\ pc = "rcr_readline"
    /\ CanRead
    /\ response' = Some(NextLine)
    /\ stdout_pipe' = RestOfPipe
    /\ IF NextLine = Eof
       THEN ReturnFromTry(FALSE, "abandoned")
       ELSE ReturnFromTry(poll_outcome(NextLine).ret, poll_outcome(NextLine).path)
    /\ UNCHANGED << github_token, server_path, process, helper, lines_written, stdin_log,
                    init_response, elapsed, cleanup >>
    /\ UNCHANGED MainVars

\* Lines 155-185. process.stdout.readable() is true of every stream opened for
\* reading, so line 156 always runs; the readline blocks until CanRead.
PollRead ==
    /\ pc = "rcr_readline"
    /\ CanRead
    /\ response' = Some(NextLine)
    /\ stdout_pipe' = RestOfPipe
    /\ IF NextLine = Eof
       THEN \* line 157 is false: sleep and test the loop condition again
            /\ elapsed' = elapsed + SleepTicks
            /\ pc' = "rcr_loop"
            /\ UNCHANGED << ret, exit_path >>
       ELSE /\ ReturnFromTry(poll_outcome(NextLine).ret, poll_outcome(NextLine).path)
            /\ UNCHANGED elapsed
    /\ UNCHANGED << github_token, server_path, process, helper, lines_written, stdin_log,
                    init_response, cleanup >>
    /\ UNCHANGED MainVars

\* Time passes while the readline of line 156 is blocked.
BlockedTick ==
    /\ pc = "rcr_readline"
    /\ ~ CanRead
    /\ elapsed < PollCeiling + MaxOver * BlockQuantum
    /\ elapsed' = elapsed + BlockQuantum
    /\ UNCHANGED << pc, github_token, server_path, process, helper, stdout_pipe,
                    lines_written, stdin_log, init_response, response, ret, exit_path,
                    cleanup >>
    /\ UNCHANGED MainVars

\* Lines 194-198: process.terminate(), which may itself raise.
Finally ==
    /\ pc = "rcr_finally"
    /\ IF process
       THEN /\ cleanup' = Append(cleanup, "terminate")
            /\ \/ pc' = "rcr_wait"
               \/ pc' = "rcr_kill"
       ELSE /\ pc' = "rcr_returned"
            /\ UNCHANGED cleanup
    /\ UNCHANGED << github_token, server_path, process, helper, stdout_pipe, lines_written,
                    stdin_log, init_response, response, elapsed, ret, exit_path >>
    /\ UNCHANGED MainVars

\* WaitReturns force-killing the helper although it exited within the wait.
WaitReturns_ThenKill ==
    /\ pc = "rcr_wait"
    /\ helper = "exited"
    /\ cleanup' = Append(cleanup, "wait")
    /\ pc' = "rcr_kill"
    /\ UNCHANGED << github_token, server_path, process, helper, stdout_pipe, lines_written,
                    stdin_log, init_response, response, elapsed, ret, exit_path >>
    /\ UNCHANGED MainVars

\* Line 199: the helper has exited, wait returns.
WaitReturns ==
    /\ pc = "rcr_wait"
    /\ helper = "exited"
    /\ cleanup' = Append(cleanup, "wait")
    /\ pc' = "rcr_returned"
    /\ UNCHANGED << github_token, server_path, process, helper, stdout_pipe, lines_written,
                    stdin_log, init_response, response, elapsed, ret, exit_path >>
    /\ UNCHANGED MainVars

\* Lines 199-200: the helper is still running after 5 seconds, wait raises
\* TimeoutExpired.
WaitTimesOut ==
    /\ pc = "rcr_wait"
    /\ HelperAlive
    /\ cleanup' = Append(cleanup, "wait_timeout")
    /\ pc' = "rcr_kill"
    /\ UNCHANGED << github_token, server_path, process, helper, stdout_pipe, lines_written,
                    stdin_log, init_response, response, elapsed, ret, exit_path >>
    /\ UNCHANGED MainVars

\* Line 201.
Kill ==
    /\ pc = "rcr_kill"
    /\ cleanup' = Append(cleanup, "kill")
    /\ helper' = "exited"
    /\ pc' = "rcr_returned"
    /\ UNCHANGED << github_token, server_path, process, stdout_pipe, lines_written,
                    stdin_log, init_response, response, elapsed, ret, exit_path >>
    /\ UNCHANGED MainVars

(***************************************************************************)
(* The helper subprocess: it may write any line at any time, and exit.     *)
(***************************************************************************)
HelperWrites ==
    /\ helper = "running"
    /\ lines_written < MaxLines
    /\ \E line \in Lines : stdout_pipe' = Append(stdout_pipe, line)
    /\ lines_written' = lines_written + 1
    /\ UNCHANGED << pc, github_token, server_path, process, helper, stdin_log,
                    init_response, response, elapsed, ret, exit_path, cleanup >>
    /\ UNCHANGED MainVars

\* The helper closes its stdout and keeps running.
HelperClosesStdout ==
    /\ helper = "running"
    /\ helper' = "closed"
    /\ UNCHANGED << pc, github_token, server_path, process, stdout_pipe, lines_written,
                    stdin_log, init_response, response, elapsed, ret, exit_path, cleanup >>
    /\ UNCHANGED MainVars

HelperExits ==
    /\ HelperAlive
    /\ helper' = "exited"
    /\ UNCHANGED << pc, github_token, server_path, process, stdout_pipe, lines_written,
                    stdin_log, init_response, response, elapsed, ret, exit_path, cleanup >>
    /\ UNCHANGED MainVars

(***************************************************************************)
(* The program.                                                            *)
(***************************************************************************)
ClientInit ==
    /\ github_token = None
    /\ server_path = None
    /\ process = FALSE
    /\ helper = "none"
    /\ stdout_pipe = << >>
    /\ lines_written = 0
    /\ stdin_log = << >>
    /\ init_response = None
    /\ response = None
    /\ elapsed = 0
    /\ ret = None
    /\ exit_path = "none"
    /\ cleanup = << >>

Init ==
    /\ pc = "main"
    /\ args = None
    /\ info = Pending
    /\ target = None
    /\ exit_code = None
    /\ environ = NoEnv
    /\ ClientInit

Client ==
    \/ CheckToken \/ LocateHelper \/ Launch \/ SendInitialize \/ ReadInitResponse
    \/ SendToolsCall \/ LoopCheck \/ PollRead \/ Finally \/ WaitReturns
    \/ WaitTimesOut \/ Kill

Main == ParseArgs \/ TargetFromArgs \/ TargetFromInfo \/ CallClient \/ MainExit

Next == Main \/ Client \/ BlockedTick \/ HelperWrites \/ HelperClosesStdout \/ HelperExits

Spec == Init /\ [][Next]_vars

\* The interpreter runs the program's next statement whenever there is one, and
\* the clock advances while a read is blocked.
FairSpec == Spec /\ WF_vars(Main \/ Client) /\ WF_vars(BlockedTick)

(***************************************************************************)
(* get_pull_request_info applied to each environment.                      *)
(***************************************************************************)
ResolverInit ==
    /\ pc = "resolver"
    /\ args = None
    /\ info = Pending
    /\ target = None
    /\ exit_code = None
    /\ environ \in EnvSet
    /\ ClientInit

Resolve ==
    /\ pc = "resolver"
    /\ info' = get_pull_request_info(environ)
    /\ pc' = "resolved"
    /\ UNCHANGED << args, target, exit_code, environ >>
    /\ UNCHANGED ClientVars

ResolverSpec == ResolverInit /\ [][Resolve]_vars

(***************************************************************************)
(* Properties.                                                             *)
(***************************************************************************)
HasReturned == pc \in { "rcr_returned", "exited" }
Polling == pc \in { "rcr_loop", "rcr_readline" }
Launched == helper # "none"

\* C1: whenever request_copilot_review has returned and the helper had been
\* launched, the finally block has called terminate() on it, whichever return
\* statement or exception ended the function.
C1_TerminateBeforeReturn ==
    (HasReturned /\ Launched) => (cleanup # << >> /\ Head(cleanup) = "terminate")

\* The function returned through the exception handler with a launched helper.
C1_Witness ==
    /\ pc = "rcr_returned"
    /\ Launched
    /\ exit_path = "exception"
    /\ Head(cleanup) = "terminate"

\* Nothing to read, the stream still open, and no line read by the polling step.
HelperSilent == stdout_pipe = << >> /\ helper = "running" /\ response = None

\* C2: once the polling read is reached and the helper stays silent, the
\* client eventually returns False; that is, from a silent polling read
\* either the helper stops being silent or the client returns failure.
C2_TimeoutEndsSilentWait ==
    (pc = "rcr_readline" /\ HelperSilent)
        ~> (~ HelperSilent \/ (pc = "rcr_returned" /\ ret = Some(FALSE)))

ResultLine == Obj({ "result" }, FALSE)
UnexpectedLine == Obj({ }, FALSE)

\* C3: when the line read by the polling step is an object with `result` and
\* no `error`, the function returns True through line 174 and has left the
\* polling loop at once, without a further sleep or test of the ceiling.
C3_ResultReturnsSuccess ==
    response = Some(ResultLine)
        => (ret = Some(TRUE) /\ exit_path = "result" /\ ~ Polling)

\* Success returned while the 30 seconds have not elapsed.
C3_Witness ==
    /\ pc = "rcr_returned"
    /\ response = Some(ResultLine)
    /\ ret = Some(TRUE)
    /\ within_ceiling(elapsed)

\* C4: when the line read by the polling step is an object with an `error`
\* field, the function returns False, whatever else the object holds.
C4_ErrorReturnsFailure ==
    (response # None /\ "error" \in response[1].keys)
        => (ret = Some(FALSE) /\ ~ Polling)

\* Failure returned for an object holding both `error` and `result`.
C4_Witness ==
    /\ pc = "rcr_returned"
    /\ response = Some(Obj({ "error", "result" }, TRUE))
    /\ ret = Some(FALSE)

\* C5: after an object with neither `error` nor `result` is read, polling
\* continues: while the 30 seconds have not elapsed and a result line waits
\* unread, the client is still in the polling loop.
C5_UnexpectedLineKeepsPolling ==
    ( /\ response = Some(UnexpectedLine)
      /\ within_ceiling(elapsed)
      /\ stdout_pipe # << >>
      /\ Head(stdout_pipe) = ResultLine )
        => Polling

\* C6: after a line that is no valid JSON is read, polling continues: while
\* the 30 seconds have not elapsed and a line with `result` or `error` waits
\* unread, the client is still in the polling loop.
C6_MalformedLineKeepsPolling ==
    ( /\ response = Some(Invalid)
      /\ within_ceiling(elapsed)
      /\ stdout_pipe # << >>
      /\ Head(stdout_pipe).keys # { } )
        => Polling

\* The token has been read (line 71 has run).
TokenRead == (pc \notin { "main", "main_target", "main_call", "rcr_token" }) /\ (pc = "exited" => ret # None)

\* C7: with the token present and the helper executable absent, the function
\* returns False and no helper process ever exists, nor is anything written.
C7_AbsentHelperNeverLaunched ==
    ( /\ TokenRead
      /\ github_token # None /\ github_token # Some(<< >>)
      /\ server_path = None
      /\ pc # "rcr_setup" )
        => ( /\ ret = Some(FALSE)
             /\ exit_path = "no_helper"
             /\ ~ process
             /\ ~ Launched
             /\ stdin_log = << >> )

\* The function returned because the executable was absent.
C7_Witness ==
    /\ pc = "rcr_returned"
    /\ github_token = Some(<<"t">>)
    /\ server_path = None
    /\ exit_path = "no_helper"

\* C8: with the token absent or empty, the function returns False at line 74:
\* the helper is not looked for, no process is launched, nothing is written.
C8_MissingTokenFailsFirst ==
    (TokenRead /\ (github_token = None \/ github_token = Some(<< >>)))
        => ( /\ ret = Some(FALSE)
             /\ exit_path = "no_token"
             /\ HasReturned
             /\ server_path = None
             /\ ~ process
             /\ ~ Launched
             /\ stdin_log = << >> )

\* The function returned because the token was the empty string.
C8_Witness ==
    /\ pc = "rcr_returned"
    /\ github_token = Some(<< >>)
    /\ ret = Some(FALSE)

\* C9 as stated: the process ends with status 0 exactly when
\* request_copilot_review returned True, and with status 1 in every other case.
C9_ExitStatusAlways ==
    pc = "exited"
        => exit_code = Some(IF ret = Some(TRUE) THEN 0 ELSE 1)

\* C9 amended: once parse_args has returned, the process ends with status 0
\* exactly when request_copilot_review returned True and with status 1
\* otherwise; when no target was resolved the client was never invoked.
C9_ExitStatusAfterParse ==
    (pc = "exited" /\ args # None)
        => ( /\ exit_code = Some(IF ret = Some(TRUE) THEN 0 ELSE 1)
             /\ target = None => (ret = None /\ github_token = None /\ ~ Launched) )

\* The process ended with status 0 after the client returned True.
C9_Witness ==
    /\ pc = "exited"
    /\ args # None
    /\ ret = Some(TRUE)
    /\ exit_code = Some(0)

\* C10: for a repository identifier that is not empty and holds no "/",
\* get_pull_request_info returns the empty triple.
C10_NoSlashReturnsEmpty ==
    ( /\ pc = "resolved"
      /\ environ.GITHUB_REPOSITORY # None
      /\ environ.GITHUB_REPOSITORY[1] # << >>
      /\ \A i \in 1..Len(environ.GITHUB_REPOSITORY[1]) :
            environ.GITHUB_REPOSITORY[1][i] # "/" )
        => info = NoInfo

\* C11: when --owner, --repo and --pr are all supplied, main never calls
\* get_pull_request_info, and the target it builds holds exactly the supplied
\* owner and repository and the integer value of the supplied number.
C11_CommandLineBypassesResolver ==
    ( /\ args # None
      /\ args[1].owner # None /\ args[1].repo # None /\ args[1].pr # None
      /\ pc \notin { "main", "main_target" } )
        => ( /\ info = Pending
             /\ target # None =>
                  target[1] = [owner |-> args[1].owner[1], repo |-> args[1].repo[1],
                               number |-> int(args[1].pr[1]).val] )

\* The repository identifier of the environment splits into owner and name.
RepositoryResolves ==
    /\ environ.GITHUB_REPOSITORY # None
    /\ environ.GITHUB_REPOSITORY[1] # << >>
    /\ UnpackOk(split(environ.GITHUB_REPOSITORY[1]))

\* The environment with another event path and another event file.
WithEvent(e, x, f) == [e EXCEPT !.GITHUB_EVENT_PATH = x, !.event_file = f]

\* C12: the number is resolved in priority order. A non-empty PR_NUMBER is
\* the result whatever the event file holds; otherwise a number the event
\* payload yields is the result; and when neither yields a number,
\* get_pull_request_info returns the empty triple.
C12_NumberPriorityOrder ==
    (pc = "resolved" /\ RepositoryResolves)
        => LET p == EnvGet(environ, "PR_NUMBER")
               ev == EventNumber(environ)
           IN  /\ Truthy(p) =>
                    /\ info.kind = "return" => info.number = Some(int(p.v).val)
                    /\ \A x \in { None, Some(<<"p">>) }, f \in EventFiles :
                          get_pull_request_info(WithEvent(environ, x, f)) = info
               /\ (~ Truthy(p) /\ ~ ev.raise /\ Truthy(ev.pr)) =>
                    (info.kind = "return" /\ info.number = Some(ev.pr.v))
               /\ (~ Truthy(p) /\ (ev.raise \/ ~ Truthy(ev.pr))) => info = NoInfo

\* PR_NUMBER is unset or empty and the event path names a file of valid JSON.
PayloadConsulted ==
    /\ ~ Truthy(EnvGet(environ, "PR_NUMBER"))
    /\ environ.GITHUB_EVENT_PATH # None
    /\ environ.event_file.exists
    /\ environ.event_file.valid_json

\* The object under `key` of the payload holds a number other than 0.
HasNumber(d, key) == "number" \in DOMAIN d[key] /\ d[key].number # 0

\* C13: with no override, a payload with `pull_request` yields
\* pull_request.number; otherwise a payload whose `issue` holds `pull_request`
\* yields issue.number; and an `issue` without `pull_request` yields the empty
\* triple.
C13_PayloadExtraction ==
    (pc = "resolved" /\ RepositoryResolves /\ PayloadConsulted)
        => LET d == environ.event_file.data
           IN  /\ ("pull_request" \in DOMAIN d /\ HasNumber(d, "pull_request"))
                    => (info.kind = "return"
                        /\ info.number = Some(d.pull_request.number))
               /\ ( /\ "pull_request" \notin DOMAIN d
                    /\ "issue" \in DOMAIN d
                    /\ "pull_request" \in DOMAIN d.issue
                    /\ HasNumber(d, "issue") )
                    => (info.kind = "return" /\ info.number = Some(d.issue.number))
               /\ ( /\ "pull_request" \notin DOMAIN d
                    /\ "issue" \in DOMAIN d
                    /\ "pull_request" \notin DOMAIN d.issue )
                    => info = NoInfo

\* A comment on a pull request resolved to the number of its issue.
C13_Witness ==
    /\ pc = "resolved"
    /\ RepositoryResolves
    /\ PayloadConsulted
    /\ environ.event_file.data = [issue |-> [number |-> 7, pull_request |-> [url |-> 0]]]
    /\ info.number = Some(7)

\* C14: at most two messages are written to the helper: first `initialize`
\* with id 1, then `tools/call` with id 2 naming request_copilot_review with
\* the target's owner, repo and pullNumber; the second is written only after
\* the readline that follows `initialize` has returned, and no message is
\* written twice.
C14_TwoMessagesInOrder ==
    /\ Len(stdin_log) <= 2
    /\ Len(stdin_log) >= 1 =>
         (stdin_log[1].id = 1 /\ stdin_log[1].method = "initialize")
    /\ Len(stdin_log) = 2 =>
         /\ stdin_log[2].id = 2
         /\ stdin_log[2].method = "tools/call"
         /\ stdin_log[2].params.name = "request_copilot_review"
         /\ target # None
         /\ stdin_log[2].params.arguments =
              [owner |-> target[1].owner, repo |-> target[1].repo,
               pullNumber |-> target[1].number]
         /\ init_response # None

\* Both messages were written and the function has returned.
C14_Witness ==
    /\ pc = "rcr_returned"
    /\ Len(stdin_log) = 2
    /\ init_response # None

\* C15: whenever main has called request_copilot_review, the number of the
\* target it passed is a positive integer.
C15_TargetNumberPositive ==
    pc = "rcr_token" => (target # None /\ target[1].number > 0)

\* The line is a JSON object holding `result` and not `error`.
IsResult(line) ==
    line.syntax = "object" /\ "result" \in line.keys /\ "error" \notin line.keys

\* C16: the line read after `initialize` does not steer the client. Whatever
\* that line is, the step that reads it leads to the writing of the
\* tools/call request and decides nothing; and once the function has returned
\* after that read, its result is fixed by the line read in the polling loop
\* alone.
C16_InitLineDoesNotSteer ==
    /\ [][ (pc = "rcr_init_read" /\ pc' # pc)
             => ( /\ pc' = "rcr_call_write"
                  /\ init_response' # None
                  /\ << ret', exit_path', stdin_log', response', cleanup' >>
                       = << ret, exit_path, stdin_log, response, cleanup >> ) ]_vars
    /\ []( (HasReturned /\ init_response # None)
             => (ret = Some(TRUE) <=> (response # None /\ IsResult(response[1]))) )

\* The line read after `initialize` was an error object and the function
\* returned True.
C16_Witness ==
    /\ pc = "rcr_returned"
    /\ init_response = Some(Obj({ "error" }, TRUE))
    /\ ret = Some(TRUE)

\* C17: the cleanup requests graceful termination first; a force-kill follows
\* only a terminate that failed or a wait that timed out, never a wait within
\* which the helper exited; and without a subprocess nothing is issued.
C17_CleanupOrder ==
    /\ cleanup \in { << >>, <<"terminate">>, <<"terminate", "wait">>,
                     <<"terminate", "kill">>, <<"terminate", "wait_timeout">>,
                     <<"terminate", "wait_timeout", "kill">> }
    /\ ~ process => cleanup = << >>
    /\ (HasReturned /\ process)
         => cleanup \in { <<"terminate", "wait">>, <<"terminate", "kill">>,
                          <<"terminate", "wait_timeout", "kill">> }

\* The helper outlived the wait and was force-killed.
C17_Witness ==
    /\ pc = "rcr_returned"
    /\ process
    /\ cleanup = <<"terminate", "wait_timeout", "kill">>

\* C18: request_copilot_review returns True only after the tools/call request
\* was written and a line was read that is an object with `result` and
\* without `error`; every other run that returns, returns False; and a result
\* object is accepted whatever its id.
C18_SuccessOnlyOnResult ==
    /\ ret = Some(TRUE) =>
         /\ Len(stdin_log) = 2
         /\ response # None
         /\ IsResult(response[1])
         /\ exit_path = "result"
    /\ pc = "rcr_returned" => ret \in { Some(TRUE), Some(FALSE) }
    /\ (pc = "rcr_returned" /\ response # None /\ IsResult(response[1]))
         => ret = Some(TRUE)

\* True returned for a result object whose id is not the id of the request.
C18_Witness ==
    /\ pc = "rcr_returned"
    /\ ret = Some(TRUE)
    /\ response # None
    /\ response[1].id # stdin_log[2].id

\* The helper was launched, wrote no line, and its stdout is at end of file.
SilentEof == process /\ lines_written = 0 /\ helper \in { "closed", "exited" }

\* C19: when the helper exits or closes its stdout without writing a line,
\* the function never returns True: it returns False through the caught
\* exception of a write or once the 30 seconds of polling are over, and the
\* cleanup has then requested termination.
C19_SilentEofFails ==
    SilentEof
        => ( /\ ret # Some(TRUE)
             /\ init_response \in { None, Some(Eof) }
             /\ response \in { None, Some(Eof) }
             /\ ret # None =>
                  \/ exit_path = "exception" /\ Len(stdin_log) < 2
                  \/ exit_path = "timeout" /\ ~ within_ceiling(elapsed)
             /\ pc = "rcr_returned" =>
                  (ret = Some(FALSE) /\ cleanup # << >> /\ cleanup[1] = "terminate") )

\* Every read returned end of file and the function returned False when the
\* polling window ended.
C19_Witness ==
    /\ SilentEof
    /\ pc = "rcr_returned"
    /\ init_response = Some(Eof)
    /\ exit_path = "timeout"
    /\ ret = Some(FALSE)

\* At least one of --owner, --repo and --pr was supplied, and not all three.
Partial(a) ==
    /\ a.owner # None \/ a.repo # None \/ a.pr # None
    /\ a.owner = None \/ a.repo = None \/ a.pr = None

\* C20: when some but not all of --owner, --repo and --pr are supplied, main
\* calls get_pull_request_info and the target is the triple it returned: no
\* field of the target is a supplied command-line value.
C20_PartialArgsDiscarded ==
    (args # None /\ Partial(args[1]) /\ pc \notin { "main", "main_target" })
        => ( /\ info # Pending
             /\ target # None =>
                  /\ info.kind = "return"
                  /\ target[1] = [owner |-> info.owner[1], repo |-> info.repo[1],
                                  number |-> info.number[1]]
                  /\ args[1].owner # None => target[1].owner # args[1].owner[1]
                  /\ args[1].repo # None => target[1].repo # args[1].repo[1]
                  /\ args[1].pr # None => target[1].number # int(args[1].pr[1]).val )

\* With --owner and --repo supplied and --pr missing, the client was called
\* with the target of the environment.
C20_Witness ==
    /\ pc = "rcr_token"
    /\ args # None
    /\ args[1].owner = Some(<<"c">>) /\ args[1].repo = Some(<<"d">>) /\ args[1].pr = None
    /\ target = Some([owner |-> <<"e">>, repo |-> <<"r">>, number |-> 42])

====
